---- MODULE Spec2Model ----
(***************************************************************************)
(* IconDelegate (lib/service/icon-delegate.js): the per-resource icon      *)
(* resolver.  Three delegates S, M and N are modelled together with the    *)
(* collaborators the class talks to: the cache store (Storage), the icon   *)
(* tables (IconTables), the strategy manager, the event emitters and the   *)
(* host's setImmediate queue.                                              *)
(*                                                                         *)
(* Every method of the class is an operator from a program state (a record *)
(* of all variables) to the program state after the call; a thrown         *)
(* exception is the field `error`, which makes every later statement of    *)
(* the call stack a no-op, as an uncaught exception does.                  *)
(***************************************************************************)
EXTENDS Integers, Sequences, FiniteSets, TLC

VARIABLES
    icons,           \* this.icons: priority -> icon or Null
    numIcons,        \* this.numIcons
    currentIcon,     \* this.currentIcon while it is a plain data field
    currentPriority, \* this.currentPriority
    destroyed,       \* this.destroyed
    emitter,         \* TRUE while this.emitter (and this.resource, this.icons) is non-null
    isDirectory,     \* this.resource.isDirectory
    delegated,       \* TRUE once `set master` has redefined currentIcon and master
    masterDelegate,  \* closure variable masterDelegate
    originalIcon,    \* closure variable currentIcon (= originalIcon)
    disposable,      \* closure variable disposable: the delegate the relay is subscribed on
    handlers,        \* per emitter: the subscribers, in subscription order
    destroyCount,    \* number of did-destroy events each emitter has emitted
    cache,           \* Storage.data.icons[path], <<>> when absent
    frozen,          \* Storage.frozen
    tablesLoaded,    \* IconTables.fileIcons / directoryIcons are defined
    immediates,      \* the host's queue of setImmediate callbacks
    events,          \* events emitted during the last operation, in order
    queried,         \* resources handed to StrategyManager.query during the last operation
    error,           \* exception the last operation ended with, or "none"
    result,          \* value the last operation returned
    last             \* the last operation and its arguments

vars == <<icons, numIcons, currentIcon, currentPriority, destroyed, emitter,
          isDirectory, delegated, masterDelegate, originalIcon, disposable,
          handlers, destroyCount, cache, frozen, tablesLoaded, immediates,
          events, queried, error, result, last>>

(* ----------------------------- bounds --------------------------------- *)

\* Priorities handed to add/remove range over 0..MaxPriority.
MaxPriority == 2

(* ------------------------- values and tables -------------------------- *)

Delegates == {"S", "M", "N"}
Icons == {"iconA", "iconB"}
Priorities == 0..MaxPriority

Null == "null"
Undefined == "undefined"
\* The {from, to} object an emitter hands to did-change-master handlers.
Payload == "payload"
\* The external subscriber d.onDidDestroy(() => d.destroy()).
Observer == "observer"

\* setCurrentIcon's default argument `priority = null`.
NoPriority == -2

fileIcons == <<"iconA", "iconB">>
directoryIcons == <<"iconB">>

\* icon.icon: the class name of an icon.
IconClass(icon) == IF icon = "iconA" THEN "a-icon" ELSE "b-icon"
\* icon.colour: the colour classes of an icon.
IconColour(icon) == IF icon = "iconA" THEN <<"medium-red">> ELSE <<>>

\* Array.prototype.indexOf: 0-based, -1 when absent.
indexOf(list, icon) ==
    IF \E k \in 1..Len(list) : list[k] = icon
    THEN (CHOOSE k \in 1..Len(list) :
              list[k] = icon /\ \A j \in 1..(k - 1) : list[j] # icon) - 1
    ELSE -1

\* list[index]: Null (undefined) outside the array.
At(list, index) ==
    IF index \in 0..(Len(list) - 1) THEN list[index + 1] ELSE Null

Without(seq, x) == SelectSeq(seq, LAMBDA h : h # x)

\* The keys of this.icons that are written: the priorities, and the -1 that
\* a cache entry saved while currentPriority was -1 hands to add.
Slots == -1..MaxPriority

NoIcons == [p \in Slots |-> Null]

(* --------------------------- program state ---------------------------- *)

State ==
    [icons |-> icons, numIcons |-> numIcons, currentIcon |-> currentIcon,
     currentPriority |-> currentPriority, destroyed |-> destroyed,
     emitter |-> emitter, isDirectory |-> isDirectory, delegated |-> delegated,
     masterDelegate |-> masterDelegate, originalIcon |-> originalIcon,
     disposable |-> disposable, handlers |-> handlers,
     destroyCount |-> destroyCount, cache |-> cache, frozen |-> frozen,
     tablesLoaded |-> tablesLoaded, immediates |-> immediates,
     events |-> events, queried |-> queried, error |-> error,
     result |-> result]

Thrown(s) == s.error # "none"
Throw(s, e) == [s EXCEPT !.error = e]
Ret(s, v) == [st |-> s, val |-> v]

\* this.resource, as StrategyManager.query receives it.
Resource(s, d) == IF s.emitter[d] THEN d ELSE Null

\* IconTables.directoryIcons or IconTables.fileIcons of the delegate's resource.
iconList(s, d) == IF s.isDirectory[d] THEN directoryIcons ELSE fileIcons

\* StrategyManager.query(resource): the request is recorded; the add calls
\* it causes arrive later, as operations of their own.
query(s, resource) == [s EXCEPT !.queried = @ \cup {resource}]

\* setImmediate(fn)
setImmediate(s, fn, d) ==
    [s EXCEPT !.immediates = Append(@, [fn |-> fn, self |-> d])]

\* input.master as another object reads it: the prototype's accessor has no
\* getter, the instance's accessor returns masterDelegate.
Master(s, d) == IF s.delegated[d] THEN s.masterDelegate[d] ELSE Undefined

\* Highest index at or below i whose slot holds an icon, or -1.
RECURSIVE ScanFrom(_, _, _)
ScanFrom(s, d, i) ==
    IF i < 0 THEN -1
    ELSE IF s.icons[d][i] # Null THEN i
    ELSE ScanFrom(s, d, i - 1)

(* ------------------------------ methods ------------------------------- *)

RECURSIVE currentIconGet(_, _, _), getCurrentIcon(_, _, _),
          setCurrentIcon(_, _, _, _, _), serialise(_, _, _),
          emitIconChange(_, _, _, _), Emit(_, _, _, _, _),
          Dispatch(_, _, _, _, _, _), Handle(_, _, _, _, _, _),
          masterSet(_, _, _), destroy(_, _)

\* Reading this.currentIcon: the plain field, or, once `set master` has run,
\* the accessor that asks masterDelegate.  `seen` holds the delegates whose
\* accessor is already on the call stack: coming back to one of them is an
\* unbounded recursion, which ends in a RangeError.
currentIconGet(s, d, seen) ==
    IF ~s.delegated[d] THEN Ret(s, s.currentIcon[d])
    ELSE IF s.masterDelegate[d] = Null THEN Ret(s, Null)
    ELSE IF s.masterDelegate[d] = Payload THEN Ret(Throw(s, "TypeError"), Null)
    ELSE IF d \in seen THEN Ret(Throw(s, "RangeError"), Null)
    ELSE getCurrentIcon(s, s.masterDelegate[d], seen \cup {d})

getCurrentIcon(s, d, seen) ==
    LET r1 == currentIconGet(s, d, seen)
        s1 == r1.st
        i  == ScanFrom(s1, d, MaxPriority)
    IN  IF Thrown(s1) THEN r1
        ELSE IF r1.val # Null THEN currentIconGet(s1, d, seen)
        ELSE IF s1.numIcons[d] > 0 /\ ~s1.emitter[d]
             THEN Ret(Throw(s1, "TypeError"), Null)
        ELSE IF s1.numIcons[d] > 0 /\ i >= 0
             THEN Ret(setCurrentIcon(s1, d, s1.icons[d][i], i, seen),
                      s1.icons[d][i])
        ELSE currentIconGet(query(s1, Resource(s1, d)), d, seen)

setCurrentIcon(s, d, to, priority, seen) ==
    LET r    == currentIconGet(s, d, seen)
        from == r.val
        s1   == [r.st EXCEPT !.currentIcon[d] = to,
                             !.currentPriority[d] =
                                 IF priority # NoPriority THEN priority ELSE @]
        r2   == IF to = Null /\ ~s1.isDirectory[d]
                THEN getCurrentIcon(s1, d, seen)
                ELSE Ret(s1, to)
        s3   == serialise(r2.st, d, seen)
    IN  IF Thrown(r.st) \/ from = to THEN r.st
        ELSE IF r.st.delegated[d] THEN Throw(r.st, "TypeError")
        ELSE IF to = Null /\ ~s1.emitter[d] THEN Throw(s1, "TypeError")
        ELSE IF Thrown(r2.st) THEN r2.st
        ELSE IF Thrown(s3) THEN s3
        ELSE emitIconChange(s3, d, from, r2.val)

serialise(s, d, seen) ==
    LET r    == currentIconGet(s, d, seen)
        icon == r.val
    IN  IF s.frozen THEN s
        ELSE IF ~s.emitter[d] THEN Throw(s, "TypeError")
        ELSE IF Thrown(r.st) THEN r.st
        ELSE IF icon = Null THEN [r.st EXCEPT !.cache[d] = <<>>]
        ELSE IF ~r.st.tablesLoaded THEN Throw(r.st, "TypeError")
        ELSE [r.st EXCEPT !.cache[d] =
                 <<r.st.currentPriority[d], indexOf(iconList(r.st, d), icon),
                   IconClass(icon)>> \o IconColour(icon)]

emitIconChange(s, d, from, to) ==
    IF s.emitter[d] THEN Emit(s, d, "did-change-icon", from, to) ELSE s

\* this.emitter.emit(kind, {from, to}): the event is emitted, then every
\* subscriber's handler runs, in subscription order, until one throws.  The
\* record of the event keeps what the emitting delegate's cache entry and
\* currentPriority are at that moment.
Emit(s, d, kind, from, to) ==
    LET s1 == [s EXCEPT
                 !.events = Append(@, [kind |-> kind, src |-> d,
                                       from |-> from, to |-> to,
                                       stored |-> s.cache[d],
                                       priority |-> s.currentPriority[d]]),
                 !.destroyCount[d] = IF kind = "did-destroy" THEN @ + 1 ELSE @]
    IN  Dispatch(s1, s1.handlers[d], d, kind, from, to)

Dispatch(s, hs, d, kind, from, to) ==
    IF hs = <<>> \/ Thrown(s) THEN s
    ELSE Dispatch(Handle(s, Head(hs), d, kind, from, to), Tail(hs),
                  d, kind, from, to)

\* The handlers of lines 268-273, and the external observer's.
Handle(s, h, d, kind, from, to) ==
    IF h = Observer
    THEN IF kind = "did-destroy" THEN destroy(s, d) ELSE s
    ELSE IF kind = "did-destroy" THEN masterSet(s, h, Null)
    ELSE IF kind = "did-change-master" THEN masterSet(s, h, Payload)
    ELSE emitIconChange(s, h, from, to)

\* The master setter without the disposable.dispose() of lines 261-264: the
\* relay on the previous master stays subscribed.
masterSetKeepsRelay(s, d, to) ==
    LET from == s.masterDelegate[d]
        s2   == [s EXCEPT !.masterDelegate[d] = to]
        s3   == IF to = Null THEN s2
                ELSE IF to = Payload THEN Throw(s2, "TypeError")
                ELSE IF ~s2.emitter[to] THEN Throw(s2, "TypeError")
                ELSE [s2 EXCEPT !.handlers[to] = Append(@, d),
                                !.disposable[d] = to]
        s4   == IF s3.emitter[d]
                THEN Emit(s3, d, "did-change-master", from, to)
                ELSE s3
        r    == currentIconGet(s4, d, {})
    IN  IF to # Payload /\ to = from THEN s
        ELSE IF Thrown(s3) THEN s3
        ELSE IF Thrown(s4) THEN s4
        ELSE IF Thrown(r.st) THEN r.st
        ELSE emitIconChange(r.st, d, s.originalIcon[d], r.val)

\* The instance's `master` setter (lines 256-282).
masterSet(s, d, to) ==
    LET from == s.masterDelegate[d]
        old  == s.disposable[d]
        s1   == [s EXCEPT !.masterDelegate[d] = to]
        s2   == IF old = Null THEN s1
                ELSE [s1 EXCEPT !.handlers[old] = Without(@, d),
                                !.disposable[d] = Null]
        s3   == IF to = Null THEN s2
                ELSE IF to = Payload THEN Throw(s2, "TypeError")
                ELSE IF ~s2.emitter[to] THEN Throw(s2, "TypeError")
                ELSE [s2 EXCEPT !.handlers[to] = Append(@, d),
                                !.disposable[d] = to]
        s4   == IF s3.emitter[d]
                THEN Emit(s3, d, "did-change-master", from, to)
                ELSE s3
        r    == currentIconGet(s4, d, {})
    IN  IF to # Payload /\ to = from THEN s
        ELSE IF Thrown(s3) THEN s3
        ELSE IF Thrown(s4) THEN s4
        ELSE IF Thrown(r.st) THEN r.st
        ELSE emitIconChange(r.st, d, s.originalIcon[d], r.val)

\* `set master(input)` of the prototype (lines 238-287): the first assignment.
setMaster(s, d, input) ==
    IF input = Null \/ Master(s, input) = d THEN s
    ELSE masterSet([s EXCEPT !.originalIcon[d] = s.currentIcon[d],
                             !.currentIcon[d] = Null,
                             !.delegated[d] = TRUE,
                             !.masterDelegate[d] = Null,
                             !.disposable[d] = Null],
                   d, input)

\* destroy without the guard of line 23: a call on a destroyed delegate goes
\* on to this.emitter.emit with the emitter cleared.
destroyUnguarded(s, d) ==
    LET s1 == [s EXCEPT !.destroyed[d] = TRUE]
        s2 == Emit(s1, d, "did-destroy", Null, Null)
    IN  IF s.destroyed[d] THEN Throw(s, "TypeError")
        ELSE IF Thrown(s2) THEN s2
        ELSE [s2 EXCEPT !.emitter[d] = FALSE,
                        !.handlers[d] = <<>>,
                        !.icons[d] = NoIcons]

destroy(s, d) ==
    LET s1 == [s EXCEPT !.destroyed[d] = TRUE]
        s2 == Emit(s1, d, "did-destroy", Null, Null)
    IN  IF s.destroyed[d] THEN s
        ELSE IF Thrown(s2) THEN s2
        ELSE [s2 EXCEPT !.emitter[d] = FALSE,
                        !.handlers[d] = <<>>,
                        !.icons[d] = NoIcons]

\* add with the priority comparison of line 151 left out.
addAlwaysPromotes(s, d, icon, priority) ==
    LET s1 == [s EXCEPT
                 !.numIcons[d] = IF s.icons[d][priority] = Null THEN @ + 1 ELSE @,
                 !.icons[d][priority] = icon]
    IN  IF ~s.emitter[d] THEN Throw(s, "TypeError")
        ELSE setCurrentIcon(s1, d, icon, priority, {})

\* add with ++this.numIcons taken out of its `null == this.icons[priority]`
\* test.
addAlwaysCounts(s, d, icon, priority) ==
    LET s1 == [s EXCEPT !.numIcons[d] = @ + 1,
                        !.icons[d][priority] = icon]
    IN  IF ~s.emitter[d] THEN Throw(s, "TypeError")
        ELSE IF priority >= s1.currentPriority[d]
             THEN setCurrentIcon(s1, d, icon, priority, {})
        ELSE s1

add(s, d, icon, priority) ==
    LET s1 == [s EXCEPT
                 !.numIcons[d] = IF s.icons[d][priority] = Null THEN @ + 1 ELSE @,
                 !.icons[d][priority] = icon]
    IN  IF ~s.emitter[d] THEN Throw(s, "TypeError")
        ELSE IF priority >= s1.currentPriority[d]
             THEN setCurrentIcon(s1, d, icon, priority, {})
        ELSE s1

\* remove with the identity comparison of line 157 left out: any stored
\* icon is removed.
removeWhateverIsStored(s, d, icon, priority) ==
    LET s1 == [s EXCEPT !.icons[d][priority] = Null,
                        !.numIcons[d] = @ - 1]
    IN  IF priority = 0 THEN s
        ELSE IF ~s.emitter[d] THEN Throw(s, "TypeError")
        ELSE IF s.icons[d][priority] = Null THEN s
        ELSE IF s1.currentPriority[d] = priority
             THEN setCurrentIcon(s1, d, Null, -1, {})
        ELSE s1

remove(s, d, icon, priority) ==
    LET s1 == [s EXCEPT !.icons[d][priority] = Null,
                        !.numIcons[d] = @ - 1]
    IN  IF priority = 0 THEN s
        ELSE IF ~s.emitter[d] THEN Throw(s, "TypeError")
        ELSE IF s.icons[d][priority] # icon THEN s
        ELSE IF s1.currentPriority[d] = priority
             THEN setCurrentIcon(s1, d, Null, -1, {})
        ELSE s1

\* deserialise with the class-name comparison of line 193 left out.
deserialiseAnyClass(s, d) ==
    LET priority  == s.cache[d][1]
        iconIndex == s.cache[d][2]
        icon      == At(iconList(s, d), iconIndex)
        s1        == IF icon # Null
                     THEN add(s, d, icon, priority)
                     ELSE [s EXCEPT !.cache[d] = <<>>]
    IN  IF ~s.emitter[d] THEN Throw(s, "TypeError")
        ELSE IF s.cache[d] = <<>> THEN s
        ELSE IF ~s.tablesLoaded THEN setImmediate(s, "deserialise", d)
        ELSE IF Thrown(s1) THEN s1
        ELSE setImmediate(s1, "query", d)

deserialise(s, d) ==
    LET priority  == s.cache[d][1]
        iconIndex == s.cache[d][2]
        iconClass == s.cache[d][3]
        icon      == At(iconList(s, d), iconIndex)
        s1        == IF icon # Null /\ IconClass(icon) = iconClass
                     THEN add(s, d, icon, priority)
                     ELSE [s EXCEPT !.cache[d] = <<>>]
    IN  IF ~s.emitter[d] THEN Throw(s, "TypeError")
        ELSE IF s.cache[d] = <<>> THEN s
        ELSE IF ~s.tablesLoaded THEN setImmediate(s, "deserialise", d)
        ELSE IF Thrown(s1) THEN s1
        ELSE setImmediate(s1, "query", d)

\* The callbacks of lines 179 and 198.
runImmediate(s, task) ==
    IF task.fn = "deserialise" THEN deserialise(s, task.self)
    ELSE query(s, Resource(s, task.self))

\* new IconDelegate(resource): the field initialisers, then deserialise().
constructor(s, d) == deserialise(s, d)

(* ----------------------------- operations ----------------------------- *)

\* The state an operation starts from: the records of the previous one cleared.
Begin == [State EXCEPT !.events = <<>>, !.queried = {}, !.error = "none",
                       !.result = Null]

Commit(t) ==
    /\ icons' = t.icons
    /\ numIcons' = t.numIcons
    /\ currentIcon' = t.currentIcon
    /\ currentPriority' = t.currentPriority
    /\ destroyed' = t.destroyed
    /\ emitter' = t.emitter
    /\ isDirectory' = t.isDirectory
    /\ delegated' = t.delegated
    /\ masterDelegate' = t.masterDelegate
    /\ originalIcon' = t.originalIcon
    /\ disposable' = t.disposable
    /\ handlers' = t.handlers
    /\ destroyCount' = t.destroyCount
    /\ cache' = t.cache
    /\ frozen' = t.frozen
    /\ tablesLoaded' = t.tablesLoaded
    /\ immediates' = t.immediates
    /\ events' = t.events
    /\ queried' = t.queried
    /\ error' = t.error
    /\ result' = t.result

Op(op, d, arg, priority) ==
    [op |-> op, self |-> d, arg |-> arg, priority |-> priority]

\* d.add(icon, priority); icons are entries of the tables, so there is none
\* to add before the tables have loaded.
Add(d, icon, priority) ==
    /\ tablesLoaded
    /\ Commit(add(Begin, d, icon, priority))
    /\ last' = Op("add", d, icon, priority)

\* d.remove(icon, priority)
Remove(d, icon, priority) ==
    /\ tablesLoaded
    /\ Commit(remove(Begin, d, icon, priority))
    /\ last' = Op("remove", d, icon, priority)

\* d.getCurrentIcon()
\* setCurrentIcon(to), called with its default priority.
SetCurrentIcon(d, to) ==
    /\ tablesLoaded
    /\ Commit(setCurrentIcon(Begin, d, to, NoPriority, {}))
    /\ last' = Op("setCurrentIcon", d, to, NoPriority)

GetCurrentIcon(d) ==
    /\ LET r == getCurrentIcon(Begin, d, {})
       IN  Commit([r.st EXCEPT !.result = IF Thrown(r.st) THEN Null ELSE r.val])
    /\ last' = Op("getCurrentIcon", d, Null, -1)

\* d.destroy()
Destroy(d) ==
    /\ Commit(destroy(Begin, d))
    /\ last' = Op("destroy", d, Null, -1)

\* d.onDidDestroy(() => d.destroy()), by an observer that has not subscribed yet.
Observe(d) ==
    /\ \A k \in 1..Len(handlers[d]) : handlers[d][k] # Observer
    /\ Commit(IF emitter[d]
              THEN [Begin EXCEPT !.handlers[d] = Append(@, Observer)]
              ELSE Throw(Begin, "TypeError"))
    /\ last' = Op("onDidDestroy", d, Null, -1)

\* d.master = input
SetMaster(d, input) ==
    /\ Commit(IF delegated[d] THEN masterSet(Begin, d, input)
              ELSE setMaster(Begin, d, input))
    /\ last' = Op("master", d, input, -1)

\* The host runs the oldest setImmediate callback.
RunImmediate ==
    /\ immediates # <<>>
    /\ Commit(runImmediate([Begin EXCEPT !.immediates = Tail(@)],
                           Head(immediates)))
    /\ last' = Op(Head(immediates).fn, Head(immediates).self, Null, -1)

\* The icon tables finish loading.
LoadTables ==
    /\ ~tablesLoaded
    /\ Commit([Begin EXCEPT !.tablesLoaded = TRUE])
    /\ last' = Op("loadTables", Null, Null, -1)

(* --------------------------- initial states --------------------------- *)

\* Cache entries a previous session may have left under a path: none, two
\* written from the tables as they are now (one of a file, one of a
\* directory), one whose class name no longer matches its index, and one
\* whose index is outside the tables.
InitCacheEntries ==
    {<<>>, <<1, 0, "a-icon", "medium-red">>, <<1, 0, "b-icon">>,
     <<2, 1, "a-icon", "medium-red">>, <<0, 3, "b-icon">>}

\* The program before any delegate is constructed.
Blank(dirs, entries, fr, loaded) ==
    [icons |-> [d \in Delegates |-> NoIcons],
     numIcons |-> [d \in Delegates |-> 0],
     currentIcon |-> [d \in Delegates |-> Null],
     currentPriority |-> [d \in Delegates |-> -1],
     destroyed |-> [d \in Delegates |-> FALSE],
     emitter |-> [d \in Delegates |-> TRUE],
     isDirectory |-> dirs,
     delegated |-> [d \in Delegates |-> FALSE],
     masterDelegate |-> [d \in Delegates |-> Null],
     originalIcon |-> [d \in Delegates |-> Null],
     disposable |-> [d \in Delegates |-> Null],
     handlers |-> [d \in Delegates |-> <<>>],
     destroyCount |-> [d \in Delegates |-> 0],
     cache |-> entries,
     frozen |-> fr,
     tablesLoaded |-> loaded,
     immediates |-> <<>>,
     events |-> <<>>,
     queried |-> {},
     error |-> "none",
     result |-> Null]

\* The three delegates constructed, S first.
Constructed(dirs, entries, fr, loaded) ==
    constructor(constructor(constructor(Blank(dirs, entries, fr, loaded),
                                        "S"), "M"), "N")

InitFrom(t) ==
    /\ icons = t.icons
    /\ numIcons = t.numIcons
    /\ currentIcon = t.currentIcon
    /\ currentPriority = t.currentPriority
    /\ destroyed = t.destroyed
    /\ emitter = t.emitter
    /\ isDirectory = t.isDirectory
    /\ delegated = t.delegated
    /\ masterDelegate = t.masterDelegate
    /\ originalIcon = t.originalIcon
    /\ disposable = t.disposable
    /\ handlers = t.handlers
    /\ destroyCount = t.destroyCount
    /\ cache = t.cache
    /\ frozen = t.frozen
    /\ tablesLoaded = t.tablesLoaded
    /\ immediates = t.immediates
    /\ events = t.events
    /\ queried = t.queried
    /\ error = t.error
    /\ result = t.result
    /\ last = Op("new", "S", Null, -1)

(* One delegate, S, with its cache entry, Storage and the tables in any    *)
(* initial condition; its owner adds, removes, resolves and destroys.      *)
Init ==
    \E dir \in BOOLEAN, entry \in InitCacheEntries,
       fr \in BOOLEAN, loaded \in BOOLEAN :
        InitFrom(Constructed([d \in Delegates |-> d = "S" /\ dir],
                             [d \in Delegates |->
                                 IF d = "S" THEN entry ELSE <<>>],
                             fr, loaded))

Next ==
    \/ \E icon \in Icons, priority \in Priorities : Add("S", icon, priority)
    \/ \E icon \in Icons, priority \in Priorities : Remove("S", icon, priority)
    \/ GetCurrentIcon("S")
    \/ Destroy("S")
    \/ Observe("S")
    \/ RunImmediate
    \/ LoadTables

Spec == Init /\ [][Next]_vars

(* Delegation: S, M and N are files with nothing cached and the tables are  *)
(* loaded.  S may take M or N as its master and M may take N; each         *)
(* delegate's provider adds and removes one icon, LinkIcon, at one         *)
(* priority, LinkPriority.                                                 *)
LinkPriority == MaxPriority
LinkIcon(d) == IF d = "M" THEN "iconB" ELSE "iconA"
LinkMasters(d) ==
    IF d = "S" THEN {"M", "N", Null}
    ELSE IF d = "M" THEN {"N", Null}
    ELSE {}

InitLink ==
    \E fr \in BOOLEAN :
        InitFrom(Constructed([d \in Delegates |-> FALSE],
                             [d \in Delegates |-> <<>>], fr, TRUE))

NextLink ==
    \/ \E d \in Delegates : Add(d, LinkIcon(d), LinkPriority)
    \/ \E d \in Delegates : Remove(d, LinkIcon(d), LinkPriority)
    \/ \E d \in Delegates : GetCurrentIcon(d)
    \/ \E d \in Delegates : Destroy(d)
    \/ \E d \in Delegates : \E input \in LinkMasters(d) : SetMaster(d, input)

SpecLink == InitLink /\ [][NextLink]_vars

\* One delegate whose client also calls setCurrentIcon directly.
NextSet ==
    \/ Next
    \/ \E to \in Icons \cup {Null} : SetCurrentIcon("S", to)

SpecSet == Init /\ [][NextSet]_vars

(* ------------------------------- claims ------------------------------- *)

\* The icon in the highest-priority non-empty slot of d, Null if all are empty.
TopIcon(d) ==
    IF \E p \in Priorities : icons[d][p] # Null
    THEN icons[d][CHOOSE p \in Priorities :
                      /\ icons[d][p] # Null
                      /\ \A q \in Priorities : q > p => icons[d][q] = Null]
    ELSE Null

IconChanges(evs) == SelectSeq(evs, LAMBDA e : e.kind = "did-change-icon")

\* C1: on a non-destroyed, non-delegated delegate, getCurrentIcon() returns
\* the icon of the highest-priority non-empty slot (Null only if every slot
\* is empty), whatever add and remove calls came before.
C1_HighestPriorityWins ==
    (/\ last.op = "getCurrentIcon"
     /\ ~destroyed[last.self]
     /\ ~delegated[last.self])
    => result = TopIcon(last.self)

\* C3: on a non-destroyed, non-delegated delegate, add(icon, p) with
\* p >= currentPriority leaves currentIcon = icon and currentPriority = p.
C3_AddPromotes ==
    [][(/\ last'.op = "add"
        /\ ~destroyed[last'.self]
        /\ ~delegated[last'.self]
        /\ last'.priority >= currentPriority[last'.self])
       => (/\ currentIcon'[last'.self] = last'.arg
           /\ currentPriority'[last'.self] = last'.priority)]_vars

\* C4, as stated: on a non-delegated delegate, add(icon, p) with
\* p < currentPriority stores icon in slot p, leaves currentIcon and
\* currentPriority as they were and emits no icon-change event.
C4_LowerAddKeepsCurrent_AnyDelegate ==
    [][(/\ last'.op = "add"
        /\ ~delegated[last'.self]
        /\ last'.priority < currentPriority[last'.self])
       => (/\ icons'[last'.self][last'.priority] = last'.arg
           /\ currentIcon'[last'.self] = currentIcon[last'.self]
           /\ currentPriority'[last'.self] = currentPriority[last'.self]
           /\ IconChanges(events') = <<>>)]_vars

\* C4, amended: the same, on a non-delegated delegate that is not destroyed.
C4_LowerAddKeepsCurrent ==
    [][(/\ last'.op = "add"
        /\ ~delegated[last'.self]
        /\ ~destroyed[last'.self]
        /\ last'.priority < currentPriority[last'.self])
       => (/\ icons'[last'.self][last'.priority] = last'.arg
           /\ currentIcon'[last'.self] = currentIcon[last'.self]
           /\ currentPriority'[last'.self] = currentPriority[last'.self]
           /\ IconChanges(events') = <<>>
           /\ error' = "none")]_vars

\* C4, witness: an add below the current priority has returned: its icon is
\* stored, the current icon is another one, at a higher priority.
C4_Witness ==
    /\ last.op = "add"
    /\ ~delegated[last.self]
    /\ ~destroyed[last.self]
    /\ error = "none"
    /\ last.priority < currentPriority[last.self]
    /\ icons[last.self][last.priority] = last.arg
    /\ currentIcon[last.self] # last.arg

\* C5: remove(X, 0), when slot 0 holds X, empties slot 0 and decrements
\* numIcons, and re-resolves the current icon when currentPriority is 0
\* (which then is no longer 0, slot 0 being empty).
C5_PriorityZeroRemovable ==
    [][(/\ last'.op = "remove"
        /\ last'.priority = 0
        /\ emitter[last'.self]
        /\ ~delegated[last'.self]
        /\ icons[last'.self][0] = last'.arg)
       => (/\ icons'[last'.self][0] = Null
           /\ numIcons'[last'.self] = numIcons[last'.self] - 1
           /\ (currentPriority[last'.self] = 0
                  => currentPriority'[last'.self] # 0))]_vars

\* C6: remove(icon, p), when slot p does not hold that icon, changes none of
\* icons, numIcons, currentIcon, currentPriority and the cache, emits no
\* event and, on a delegate whose store exists, raises no error.
C6_RemoveMismatchNoOp ==
    [][(/\ last'.op = "remove"
        /\ icons[last'.self][last'.priority] # last'.arg)
       => (/\ icons' = icons
           /\ numIcons' = numIcons
           /\ currentIcon' = currentIcon
           /\ currentPriority' = currentPriority
           /\ cache' = cache
           /\ events' = <<>>
           /\ (emitter[last'.self] => error' = "none"))]_vars

\* C6, witness: a remove of one icon has returned from a slot, of a priority
\* above 0, that holds the other icon.
C6_Witness ==
    /\ last.op = "remove"
    /\ last.priority > 0
    /\ error = "none"
    /\ icons[last.self][last.priority] \in Icons \ {last.arg}

\* The program's state apart from the records of the last operation.
Program ==
    <<icons, numIcons, currentIcon, currentPriority, destroyed, emitter,
      isDirectory, delegated, masterDelegate, originalIcon, disposable,
      handlers, destroyCount, cache, frozen, tablesLoaded, immediates>>

\* C9: destroy() is idempotent: a delegate emits one did-destroy event, on
\* the call that sets destroyed, also when a handler of that event calls
\* destroy() again; destroyed never goes back to false; a call on a
\* destroyed delegate changes no state, emits nothing and raises no error.
C9_DestroyIdempotent ==
    /\ [](\A d \in Delegates :
             destroyCount[d] = IF destroyed[d] THEN 1 ELSE 0)
    /\ [][\A d \in Delegates : destroyed[d] => destroyed'[d]]_vars
    /\ [][(last'.op = "destroy" /\ destroyed[last'.self])
          => (Program' = Program /\ events' = <<>> /\ error' = "none")]_vars

\* C9, witness: destroy() has returned from a call on a delegate that was
\* destroyed before: it emitted nothing, and one did-destroy event in all.
C9_Witness ==
    /\ last.op = "destroy"
    /\ destroyed[last.self]
    /\ events = <<>>
    /\ error = "none"
    /\ destroyCount[last.self] = 1

\* C10: a deferred callback of deserialise that runs after destroy() raises
\* no error, issues no strategy query, adds no icon and leaves the cache.
C10_DeferredChecksDestroyed ==
    [][(last'.op \in {"deserialise", "query"} /\ destroyed[last'.self])
       => (/\ error' = "none"
           /\ queried' = {}
           /\ icons' = icons
           /\ numIcons' = numIcons
           /\ cache' = cache)]_vars

\* C2: while S has the live delegate M as its master, S.getCurrentIcon()
\* completes and returns what M.getCurrentIcon() returns, Null when M has
\* no icon, whatever S's own slots hold.
C2_DelegatedMirrorsMaster ==
    (/\ last.op = "getCurrentIcon"
     /\ ~destroyed[last.self]
     /\ delegated[last.self]
     /\ masterDelegate[last.self] \in Delegates
     /\ ~destroyed[masterDelegate[last.self]])
    => (/\ error = "none"
        /\ LET r == getCurrentIcon(Begin, masterDelegate[last.self], {})
           IN  ~Thrown(r.st) /\ result = r.val)

\* C7: when the master M of S is destroyed, S.master becomes Null and a
\* following S.getCurrentIcon() completes without error and returns the
\* icon of the highest-priority non-empty slot of S.
C7_MasterDestroyedFallsBack ==
    [][\A d \in Delegates :
          (/\ last'.op = "destroy"
           /\ ~destroyed[last'.self]
           /\ ~destroyed[d]
           /\ delegated[d]
           /\ masterDelegate[d] = last'.self)
          => (/\ masterDelegate'[d] = Null
              /\ LET r == getCurrentIcon(Begin', d, {})
                 IN  ~Thrown(r.st) /\ r.val = TopIcon(d)')]_vars

\* C8: when the master M of S is given the master N, and so emits a
\* did-change-master event, the assignment completes without error,
\* S.master is N afterwards and S.getCurrentIcon() returns what
\* N.getCurrentIcon() returns.
C8_MasterChangeRelays ==
    [][\A d \in Delegates :
          (/\ last'.op = "master"
           /\ last'.arg \in Delegates
           /\ ~destroyed[d] /\ ~destroyed[last'.self] /\ ~destroyed[last'.arg]
           /\ delegated[d]
           /\ masterDelegate[d] = last'.self
           /\ \E k \in 1..Len(events') :
                  /\ events'[k].kind = "did-change-master"
                  /\ events'[k].src = last'.self
                  /\ events'[k].to = last'.arg)
          => (/\ error' = "none"
              /\ masterDelegate'[d] = last'.arg
              /\ LET r == getCurrentIcon(Begin', d, {})
                     n == getCurrentIcon(Begin', last'.arg, {})
                 IN  ~Thrown(r.st) /\ ~Thrown(n.st) /\ r.val = n.val)]_vars

\* The table entry a cached tuple names, Null when its index is outside the
\* table of the delegate's kind of resource.
CachedIcon(d, tuple) ==
    LET table == IF isDirectory[d] THEN directoryIcons ELSE fileIcons
    IN  IF tuple[2] >= 0 /\ tuple[2] < Len(table)
        THEN table[tuple[2] + 1] ELSE Null

\* The tuple names an existing table entry whose class name is the cached one.
CacheValid(d, tuple) ==
    /\ CachedIcon(d, tuple) # Null
    /\ IconClass(CachedIcon(d, tuple)) = tuple[3]

\* C11: when deserialise runs with the tables loaded and a tuple cached
\* under the path, the tuple's icon is added at the tuple's priority if and
\* only if the table entry at its index exists and has the cached class
\* name; otherwise the cache entry is deleted and no icon is added.  Either
\* way exactly one strategy query is scheduled.  (First conjunct: the
\* construction; second: the retried deserialisation.)
C11_CacheValidation ==
    /\ []((last.op = "new" /\ tablesLoaded)
          => /\ \/ numIcons["S"] = 0 /\ cache["S"] = <<>> /\ icons["S"] = NoIcons
                \/ /\ cache["S"] # <<>>
                   /\ CacheValid("S", cache["S"])
                   /\ icons["S"] = [NoIcons EXCEPT ![cache["S"][1]] =
                                       CachedIcon("S", cache["S"])]
                   /\ immediates = <<[fn |-> "query", self |-> "S"]>>
             /\ Len(immediates) <= 1)
    /\ [][(/\ last'.op = "deserialise"
           /\ emitter[last'.self]
           /\ tablesLoaded
           /\ cache[last'.self] # <<>>)
          => LET d == last'.self
                 tuple == cache[d]
             IN  /\ error' = "none"
                 /\ immediates' =
                        Append(Tail(immediates), [fn |-> "query", self |-> d])
                 /\ IF CacheValid(d, tuple)
                    THEN /\ icons'[d] = [icons[d] EXCEPT ![tuple[1]] =
                                            CachedIcon(d, tuple)]
                         /\ numIcons'[d] = numIcons[d] +
                                IF icons[d][tuple[1]] = Null THEN 1 ELSE 0
                         /\ (tuple[1] >= currentPriority[d]
                                => currentIcon'[d] = CachedIcon(d, tuple))
                    ELSE /\ cache'[d] = <<>>
                         /\ icons' = icons
                         /\ numIcons' = numIcons
                         /\ currentIcon' = currentIcon]_vars

\* C11, witness: a retried deserialisation found a tuple whose class name
\* does not match the table: the entry is gone, no icon was added and one
\* query is scheduled.
C11_Witness ==
    /\ last.op = "deserialise"
    /\ error = "none"
    /\ cache[last.self] = <<>>
    /\ numIcons[last.self] = 0
    /\ immediates = <<[fn |-> "query", self |-> last.self]>>

\* The tuple serialise writes for a delegate whose current icon is `icon`
\* at priority `priority`; no entry when there is no current icon.
Serialised(d, icon, priority) ==
    LET table == IF isDirectory[d] THEN directoryIcons ELSE fileIcons
        index == IF \E k \in 1..Len(table) : table[k] = icon
                 THEN (CHOOSE k \in 1..Len(table) : table[k] = icon) - 1
                 ELSE -1
    IN  IF icon = Null THEN <<>>
        ELSE <<priority, index, IconClass(icon)>> \o IconColour(icon)

\* C12: when a delegate emits an icon-change event while the cache store is
\* not frozen, its cache entry at that moment is the tuple of its current
\* icon (the event's `to`) and currentPriority, and is absent when it has no
\* current icon.
C12_IconChangeSerialises ==
    \A k \in 1..Len(events) :
        (events[k].kind = "did-change-icon" /\ ~frozen)
        => events[k].stored =
               Serialised(events[k].src, events[k].to, events[k].priority)

NonEmptySlots(d) == {p \in Priorities : icons[d][p] # Null}

\* C13: in every state of a delegate that has not been destroyed, numIcons
\* is the number of non-empty slots of icons, and is not negative.
C13_NumIconsCountsSlots ==
    \A d \in Delegates :
        emitter[d] => /\ numIcons[d] = Cardinality(NonEmptySlots(d))
                      /\ numIcons[d] >= 0

\* An add has just overwritten the only occupied slot with the other icon.
C13_Witness ==
    /\ last.op = "add" /\ emitter[last.self] /\ error = "none"
    /\ numIcons[last.self] = 1
    /\ Len(events) = 1 /\ events[1].kind = "did-change-icon"
    /\ events[1].from \in Icons /\ events[1].to = last.arg
    /\ icons[last.self][last.priority] = last.arg
    /\ events[1].from # last.arg

\* A delegate with no master: one never delegated, or one whose master has
\* been set back to null.
NonDelegated(d) == delegated[d] => masterDelegate[d] = Null

SlotHoldsCurrent(d) ==
    IF currentIcon[d] # Null
    THEN /\ currentPriority[d] \in Priorities
         /\ icons[d][currentPriority[d]] = currentIcon[d]
    ELSE currentPriority[d] = -1

C14_NeverDelegated ==
    \A d \in Delegates :
        ( /\ last.op \in {"add", "remove", "getCurrentIcon"}
          /\ last.self = d /\ error = "none"
          /\ emitter[d] /\ ~delegated[d] )
        => SlotHoldsCurrent(d)

\* C15: on a delegate that has no master, two calls setCurrentIcon(x) in a
\* row emit one icon-change event between them, and the second call changes
\* no state, writes no cache entry and emits nothing.
C15_SetCurrentIconTwice ==
    [][( /\ last.op = "setCurrentIcon" /\ last'.op = "setCurrentIcon"
         /\ last'.self = last.self /\ last'.arg = last.arg
         /\ NonDelegated(last.self) )
       => /\ Len(IconChanges(events)) = 1
          /\ events' = <<>>
          /\ Program' = Program]_vars

\* The case of a null argument on a file that has a candidate: the second
\* call emits nothing.
C15_SecondNullCallSilent ==
    [][( /\ last.op = "setCurrentIcon" /\ last'.op = "setCurrentIcon"
         /\ last'.self = last.self /\ last.arg = Null /\ last'.arg = Null
         /\ emitter[last.self] /\ ~isDirectory[last.self]
         /\ numIcons[last.self] > 0 /\ NonDelegated(last.self) )
       => events' = <<>>]_vars

EventsOf(evs, d) == SelectSeq(evs, LAMBDA e : e.src = d)

\* C16: an assignment of master that changes the target of a live delegate
\* makes it emit a master-change event {from: previous master, to: new
\* master} and then an icon-change event from the icon it resolved to just
\* before the assignment to the freshly delegated icon; assigning the same
\* master again emits nothing.
C16_MasterAssignmentEvents ==
    [][( /\ last'.op = "master" /\ error' = "none"
         /\ emitter[last'.self]
         /\ masterDelegate[last'.self] # Payload )
       => LET d      == last'.self
              to     == last'.arg
              prev   == IF delegated[d] THEN masterDelegate[d] ELSE Null
              before == currentIconGet(State, d, {}).val
              mine   == EventsOf(events', d)
          IN  IF to = prev THEN mine = <<>>
              ELSE /\ Len(mine) = 2
                   /\ mine[1].kind = "did-change-master"
                   /\ mine[1].from = prev /\ mine[1].to = to
                   /\ mine[2].kind = "did-change-icon"
                   /\ mine[2].from = before
                   /\ mine[2].to = currentIconGet(State', d, {}).val]_vars

\* The same for the first assignment of a master only.
C16_FirstAssignmentEvents ==
    [][( /\ last'.op = "master" /\ error' = "none"
         /\ emitter[last'.self] /\ ~delegated[last'.self] )
       => LET d    == last'.self
              to   == last'.arg
              mine == EventsOf(events', d)
          IN  IF to = Null THEN mine = <<>>
              ELSE /\ Len(mine) = 2
                   /\ mine[1].kind = "did-change-master"
                   /\ mine[1].from = Null /\ mine[1].to = to
                   /\ mine[2].kind = "did-change-icon"
                   /\ mine[2].from = currentIcon[d]
                   /\ mine[2].to = currentIconGet(State', d, {}).val]_vars

Subscribed(d, m) == \E k \in 1..Len(handlers[m]) : handlers[m][k] = d

\* C17: when destroy() returns on a delegate whose master is M, the
\* delegate has no handler left on M's events: its relay is disposed.
C17_DestroyDisposesRelay ==
    [][( /\ last'.op = "destroy" /\ error' = "none"
         /\ ~destroyed[last'.self] /\ delegated[last'.self]
         /\ masterDelegate[last'.self] \in Delegates )
       => LET d == last'.self
              m == masterDelegate[d]
          IN  /\ destroyed'[d]
              /\ \A k \in 1..Len(handlers'[m]) : handlers'[m][k] # d]_vars

\* The delegates a delegate resolves through: its master, its master's
\* master, and so on.
RECURSIVE Upstream(_, _)
Upstream(d, seen) ==
    IF ~delegated[d] \/ masterDelegate[d] \notin Delegates
       \/ masterDelegate[d] \in seen
    THEN {}
    ELSE {masterDelegate[d]}
         \cup Upstream(masterDelegate[d], seen \cup {masterDelegate[d]})

Reach(d) == {d} \cup Upstream(d, {d})

\* C18: a delegate has relay handlers on at most one delegate, its current
\* master, so after S.master is re-assigned away from M1 nothing that
\* happens to M1 reaches S: a call on a delegate that shares no master chain
\* with S makes S emit nothing and leaves S.master as it is.
C18_OldRelayDisposed ==
    /\ [](\A d, m \in Delegates :
              Subscribed(d, m)
              => /\ delegated[d] /\ masterDelegate[d] = m
                 /\ Cardinality({k \in 1..Len(handlers[m]) :
                                     handlers[m][k] = d}) = 1)
    /\ [][\A d \in Delegates :
              ( /\ last'.op \in {"add", "remove", "getCurrentIcon",
                                 "destroy", "master"}
                /\ delegated[d]
                /\ Reach(d) \cap Reach(last'.self) = {}
                /\ last'.op = "master" /\ last'.arg \in Delegates
                   => Reach(d) \cap Reach(last'.arg) = {} )
              => /\ EventsOf(events', d) = <<>>
                 /\ masterDelegate'[d] = masterDelegate[d]]_vars

\* S.master has just been re-assigned from M to N, and the relay moved.
C18_Witness ==
    /\ last.op = "master" /\ last.self = "S" /\ last.arg = "N"
    /\ error = "none"
    /\ Len(events) >= 1 /\ events[1].kind = "did-change-master"
    /\ events[1].from = "M" /\ events[1].to = "N"
    /\ Subscribed("S", "N") /\ ~Subscribed("S", "M")
    /\ emitter["M"] /\ currentIcon["M"] # Null

\* C19: one call of add or remove on a delegate that has no master makes
\* that delegate emit at most one icon-change event.
C19_OneEventPerCall ==
    ( /\ last.op \in {"add", "remove"}
      /\ NonDelegated(last.self) )
    => Len(IconChanges(EventsOf(events, last.self))) <= 1

\* C20: while the cache store is frozen, no step of any delegate changes a
\* cache entry.
C20_FrozenCacheUntouched ==
    [][frozen => cache' = cache]_vars

\* The same for every step other than a deserialise.
C20_FrozenExceptDeserialise ==
    [][(frozen /\ last'.op # "deserialise") => cache' = cache]_vars

====
